---- MODULE Spec2Model ----
(***************************************************************************)
(* opencmiss.maths.vectorops: functions on Python lists used as vectors    *)
(* and matrices.  Each function is an operator computing what the Python   *)
(* code computes, including the exception that ends the call.  A call is   *)
(* an action: the caller's lists live in a heap of list objects, the call  *)
(* reads them and leaves its result (or the exception) behind.             *)
(*                                                                         *)
(* Numbers.  The inputs are Python ints, on which +, - and * are exact.    *)
(* True division (/) and sqrt give floats; a float is modelled by the real *)
(* number it rounds, kept as a record [num, den, rad] standing for         *)
(* num * sqrt(rad) / den.  Angles are kept in units of pi/4.               *)
(***************************************************************************)
EXTENDS Integers, Sequences, FiniteSets, TLC

VARIABLES pc, op, args, heap0, argRefs, heap, result, ret

vars == <<pc, op, args, heap0, argRefs, heap, result, ret>>

\* ---------------------------------------------------------------- bounds

\* vector components and scalars range over -MaxVal..MaxVal
MaxVal == 1
\* vectors have 0..MaxLen components
MaxLen == 2
\* matrices have 0..MaxDim rows and 0..MaxDim columns
MaxDim == 2
\* and at most MaxCells entries, each in 0..MaxEntry
MaxCells == 4
MaxEntry == 1

\* ------------------------------------------------------- outcomes of a call

Ok(v) == [kind |-> "ok", val |-> v]

Raise(e) == [kind |-> e, val |-> <<>>]

Min(S) == CHOOSE x \in S : \A y \in S : x <= y

\* A list display / comprehension / generator: the elements are evaluated in
\* order and the first exception ends the evaluation.
Collect(outs) ==
    LET bad == {i \in DOMAIN outs : outs[i].kind # "ok"}
    IN  IF bad # {} THEN outs[Min(bad)]
        ELSE Ok([i \in DOMAIN outs |-> outs[i].val])

\* list indexing s[i] with a 1-based index
Item(s, i) == IF i > Len(s) THEN Raise("IndexError") ELSE Ok(s[i])

\* the builtin sum over a sequence of ints
RECURSIVE sum(_)
sum(s) == IF s = <<>> THEN 0 ELSE Head(s) + sum(Tail(s))

\* sum over a generator whose items may raise
SumOf(outs) ==
    LET c == Collect(outs)
    IN  IF c.kind # "ok" THEN c ELSE Ok(sum(c.val))

\* ------------------------------------------------------------------ floats

fabs(x) == IF x < 0 THEN -x ELSE x

RECURSIVE Gcd(_, _)
Gcd(a, b) == IF b = 0 THEN a ELSE Gcd(b, a % b)

\* num * sqrt(rad) / den in lowest terms, den > 0
Real(num, den, rad) ==
    LET g == Gcd(fabs(num), fabs(den))
        s == IF den < 0 THEN -1 ELSE 1
    IN  IF num = 0 \/ rad = 0 THEN [num |-> 0, den |-> 1, rad |-> 1]
        ELSE [num |-> s * (num \div g), den |-> s * (den \div g), rad |-> rad]

FromInt(n) == Real(n, 1, 1)

IsZero(x) == x.num = 0 \/ x.rad = 0

\* IEEE division: a zero divisor gives an infinity or a NaN, no exception
truediv_ieee(x, c) ==
    IF IsZero(c) THEN Ok([num |-> x, den |-> 0, rad |-> 1])
    ELSE Ok(Real(x * c.den, c.num * c.rad, c.rad))

\* int x / float c
truediv(x, c) ==
    IF IsZero(c) THEN Raise("ZeroDivisionError")
    ELSE Ok(Real(x * c.den, c.num * c.rad, c.rad))

\* products and sums of floats, as quaternion_to_rotation_matrix needs them:
\* both factors carry the same radical, a sum has none left
FMul(a, b) ==
    IF a.rad = b.rad THEN Real(a.num * b.num * a.rad, a.den * b.den, 1)
    ELSE Real(a.num * b.num, a.den * b.den, a.rad * b.rad)

FAdd(a, b) == Real(a.num * b.den + b.num * a.den, a.den * b.den, 1)

FNeg(a) == Real(-a.num, a.den, a.rad)

FSub(a, b) == FAdd(a, FNeg(b))

\* ------------------------------------------------------- vector arithmetic

\* sqrt(n) for an int n >= 0
sqrt(n) == [num |-> 1, den |-> 1, rad |-> n]

magnitude(v) == Ok(sqrt(sum([i \in 1..Len(v) |-> v[i] * v[i]])))

add(u, v) ==
    Collect([i \in 1..Len(u) |->
        IF i > Len(v) THEN Raise("IndexError") ELSE Ok(u[i] + v[i])])

sub(u, v) ==
    Collect([i \in 1..Len(u) |->
        IF i > Len(v) THEN Raise("IndexError") ELSE Ok(u[i] - v[i])])

\* dot ranging over the components of v
dot_over_v(u, v) ==
    SumOf([i \in 1..Len(v) |->
        IF i > Len(u) THEN Raise("IndexError") ELSE Ok(u[i] * v[i])])

dot(u, v) ==
    SumOf([i \in 1..Len(u) |->
        IF i > Len(v) THEN Raise("IndexError") ELSE Ok(u[i] * v[i])])

eldiv(u, v) ==
    Collect([i \in 1..Len(u) |->
        IF i > Len(v) THEN Raise("IndexError")
        ELSE truediv(u[i], FromInt(v[i]))])

elmult(u, v) ==
    Collect([i \in 1..Len(u) |->
        IF i > Len(v) THEN Raise("IndexError") ELSE Ok(u[i] * v[i])])

normalize(v) ==
    LET vmag == magnitude(v).val
    IN  Collect([i \in 1..Len(v) |-> truediv(v[i], vmag)])

\* cross with the operands of the second component in the wrong order
cross_sign_slip(u, v) ==
    IF Len(u) < 3 \/ Len(v) < 3 THEN Raise("IndexError")
    ELSE Ok(<<u[2] * v[3] - u[3] * v[2],
              u[1] * v[3] - u[3] * v[1],
              u[1] * v[2] - u[2] * v[1]>>)

cross(u, v) ==
    IF Len(u) < 3 \/ Len(v) < 3 THEN Raise("IndexError")
    ELSE Ok(<<u[2] * v[3] - u[3] * v[2],
              u[3] * v[1] - u[1] * v[3],
              u[1] * v[2] - u[2] * v[1]>>)

mult(u, c) == Ok([i \in 1..Len(u) |-> u[i] * c])

\* c is a float (an int scalar is passed as FromInt(c))
div(u, c) == Collect([i \in 1..Len(u) |-> truediv(u[i], c)])

\* --------------------------------------------------------------- matrices

quaternion_to_rotation_matrix(quaternion) ==
    LET mag_q == magnitude(quaternion).val
        norm_q == div(quaternion, mag_q)
    IN  IF norm_q.kind # "ok" THEN norm_q
        ELSE IF Len(norm_q.val) # 4 THEN Raise("ValueError")
        ELSE LET qw == norm_q.val[1]
                 qx == norm_q.val[2]
                 qy == norm_q.val[3]
                 qz == norm_q.val[4]
                 two == FromInt(2)
                 ww == FMul(qw, qw)
                 xx == FMul(qx, qx)
                 yy == FMul(qy, qy)
                 zz == FMul(qz, qz)
                 xy == FMul(FMul(two, qx), qy)
                 wz == FMul(FMul(two, qw), qz)
                 xz == FMul(FMul(two, qx), qz)
                 wy == FMul(FMul(two, qw), qy)
                 yz == FMul(FMul(two, qy), qz)
                 wx == FMul(FMul(two, qw), qx)
             IN  Ok(<< <<FSub(FSub(FAdd(ww, xx), yy), zz), FSub(xy, wz), FAdd(xz, wy)>>,
                       <<FAdd(xy, wz), FSub(FAdd(FSub(ww, xx), yy), zz), FSub(yz, wx)>>,
                       <<FSub(xz, wy), FAdd(yz, wx), FAdd(FSub(FSub(ww, xx), yy), zz)>> >>)

matrix_constant_mult(m, c) == Collect([i \in 1..Len(m) |-> mult(m[i], c)])

matrix_vector_mult(m, v) == Collect([i \in 1..Len(m) |-> dot(m[i], v)])

\* vector_matrix_mult rejecting only a vector shorter than the rows
vector_matrix_mult_short_only(v, m) ==
    LET rows == Len(m)
    IN  IF Len(v) < rows THEN Raise("ValueError")
        ELSE IF rows = 0 THEN Raise("IndexError")
        ELSE LET columns == Len(m[1])
             IN  Collect([c \in 1..columns |->
                     SumOf([r \in 1..rows |->
                         IF c > Len(m[r]) THEN Raise("IndexError")
                         ELSE Ok(v[r] * m[r][c])])])

vector_matrix_mult(v, m) ==
    LET rows == Len(m)
    IN  IF Len(v) # rows THEN Raise("ValueError")
        ELSE IF rows = 0 THEN Raise("IndexError")
        ELSE LET columns == Len(m[1])
             IN  Collect([c \in 1..columns |->
                     SumOf([r \in 1..rows |->
                         IF c > Len(m[r]) THEN Raise("IndexError")
                         ELSE Ok(v[r] * m[r][c])])])

\* matrix_mult taking each row of a against the rows of b, not its columns
matrix_mult_by_rows(a, b) == Collect([i \in 1..Len(a) |-> matrix_vector_mult(b, a[i])])

matrix_mult(a, b) == Collect([i \in 1..Len(a) |-> vector_matrix_mult(a[i], b)])

\* transpose over the square part only
transpose_square(a) ==
    IF Len(a) = 0 THEN Ok(<<>>)
    ELSE LET n == Min({Len(a)} \cup {Len(a[i]) : i \in 1..Len(a)})
         IN  Ok([j \in 1..n |-> [i \in 1..n |-> a[i][j]]])

\* zip(*a) stops at the shortest row and yields nothing for no rows
transpose(a) ==
    IF Len(a) = 0 THEN Ok(<<>>)
    ELSE LET n == Min({Len(a[i]) : i \in 1..Len(a)})
         IN  Ok([j \in 1..n |-> [i \in 1..Len(a) |-> a[i][j]]])

\* the shape argument: a tuple (rows, cols) or an int
TupleShape(rows, cols) == [tuple |-> TRUE, dims |-> <<rows, cols>>]

IntShape(n) == [tuple |-> FALSE, dims |-> <<n>>]

\* [item for sublist in a for item in sublist]
RECURSIVE flat_list(_)
flat_list(a) == IF a = <<>> THEN <<>> ELSE Head(a) \o flat_list(Tail(a))

\* reshape slicing flat_list[:new_shape] whatever the int is
reshape_slice(a, new_shape) ==
    IF new_shape.tuple
    THEN LET rows == new_shape.dims[1]
             cols == new_shape.dims[2]
         IN  Collect([x \in 1..rows |->
                 Collect([y \in 1..cols |-> Item(a, (x - 1) * cols + y)])])
    ELSE LET n == new_shape.dims[1]
             flat == flat_list(a)
         IN  IF n < 0 THEN Ok(SubSeq(flat, 1, Len(flat) + n))
             ELSE IF n < Len(flat) THEN Ok(SubSeq(flat, 1, n))
             ELSE Ok(flat)

\* reshape reading the flat list in column-major order
reshape_column_major(a, new_shape) ==
    IF new_shape.tuple
    THEN LET rows == new_shape.dims[1]
             cols == new_shape.dims[2]
         IN  Collect([x \in 1..rows |->
                 Collect([y \in 1..cols |-> Item(a, (y - 1) * rows + x)])])
    ELSE LET n == new_shape.dims[1]
             flat == flat_list(a)
         IN  IF 0 <= n /\ n < Len(flat) THEN Ok(SubSeq(flat, 1, n)) ELSE Ok(flat)

reshape(a, new_shape) ==
    IF new_shape.tuple
    THEN LET rows == new_shape.dims[1]
             cols == new_shape.dims[2]
         IN  Collect([x \in 1..rows |->
                 Collect([y \in 1..cols |-> Item(a, (x - 1) * cols + y)])])
    ELSE LET n == new_shape.dims[1]
             flat == flat_list(a)
         IN  IF 0 <= n /\ n < Len(flat) THEN Ok(SubSeq(flat, 1, n)) ELSE Ok(flat)

\* ------------------------------------------------------------ Euler angles

\* atan2(y, x) in units of pi/4, for ints with y = 0, x = 0 or |y| = |x|
atan2(y, x) ==
    CASE y = 0 /\ x >= 0 -> 0
      [] y = 0 /\ x < 0 -> 4
      [] y > 0 /\ x = 0 -> 2
      [] y < 0 /\ x = 0 -> -2
      [] y > 0 /\ x = y -> 1
      [] y > 0 /\ x = -y -> 3
      [] y < 0 /\ x = -y -> -1
      [] y < 0 /\ x = y -> -3

\* cos and sin of an angle in units of pi/4, where the float result is exact
cos(a) == CASE a = 0 -> 1 [] a = 4 -> -1

sin(a) == CASE a = 0 -> 0 [] a = 2 -> 1 [] a = -2 -> -1

\* fabs(x) > 1.0E-12 for an int x
ExceedsTolerance(x) == fabs(x) >= 1

\* a float with an integral value, as an int
AsInt(x) == x.num \div x.den

rotation_matrix_to_euler(matrix) ==
    IF ExceedsTolerance(matrix[1][1])
    THEN LET azimuth == atan2(matrix[2][1], matrix[1][1])
             roll == atan2(matrix[3][2], matrix[3][3])
             q == truediv(matrix[1][1], FromInt(cos(azimuth)))
         IN  IF q.kind # "ok" THEN q
             ELSE Ok(<<azimuth, atan2(-matrix[3][1], AsInt(q.val)), roll>>)
    ELSE IF ExceedsTolerance(matrix[1][2])
    THEN LET azimuth == atan2(matrix[2][1], matrix[1][1])
             roll == atan2(matrix[3][2], matrix[3][3])
             q == truediv(matrix[2][1], FromInt(sin(azimuth)))
         IN  IF q.kind # "ok" THEN q
             ELSE Ok(<<azimuth, atan2(-matrix[3][1], AsInt(q.val)), roll>>)
    ELSE LET elevation == atan2(-matrix[3][1], 0)
         IN  Ok(<<0, elevation, atan2(-matrix[2][3], -matrix[1][3] * matrix[3][1])>>)

\* -------------------------------------------------------------- the heap
\* A heap is a sequence of list objects, an object's address its index.  A
\* vector is one object holding its numbers; a matrix is one object holding
\* the addresses of its rows, each row an object of its own.  Numbers and
\* tuples are immutable and passed by value.

LoadVector(h, r) == h[r]

LoadMatrix(h, r) == [i \in 1..Len(h[r]) |-> h[h[r][i]]]

\* the caller's arguments, put on the heap before the call
NoArgs == [heap |-> <<>>, refs |-> <<>>]

PutVector(st, v) ==
    [heap |-> Append(st.heap, v), refs |-> Append(st.refs, Len(st.heap) + 1)]

PutMatrix(st, m) ==
    [heap |-> (st.heap \o m) \o << [i \in 1..Len(m) |-> Len(st.heap) + i] >>,
     refs |-> Append(st.refs, Len(st.heap) + Len(m) + 1)]

\* what a call leaves: the heap, the outcome the caller sees, and the address
\* of the returned list (0 when the call raised or returned a number)
Raised(h, out) == [heap |-> h, out |-> out, ref |-> 0]

\* a number is returned
ReturnNumber(h, out) == [heap |-> h, out |-> out, ref |-> 0]

\* a list built by a comprehension, a display or append is a new object
ReturnNewList(h, out) ==
    IF out.kind # "ok" THEN Raised(h, out)
    ELSE [heap |-> Append(h, out.val), out |-> out, ref |-> Len(h) + 1]

\* a list of lists, each row built by its own comprehension or call
ReturnNewMatrix(h, out) ==
    IF out.kind # "ok" THEN Raised(h, out)
    ELSE [heap |-> (h \o out.val) \o << [i \in 1..Len(out.val) |-> Len(h) + i] >>,
          out |-> out,
          ref |-> Len(h) + Len(out.val) + 1]

\* the functions as calls on heap objects: u, v, m, a are addresses
magnitude_call(h, v) == ReturnNumber(h, magnitude(LoadVector(h, v)))

add_call(h, u, v) == ReturnNewList(h, add(LoadVector(h, u), LoadVector(h, v)))

sub_call(h, u, v) == ReturnNewList(h, sub(LoadVector(h, u), LoadVector(h, v)))

dot_call(h, u, v) == ReturnNumber(h, dot(LoadVector(h, u), LoadVector(h, v)))

eldiv_call(h, u, v) == ReturnNewList(h, eldiv(LoadVector(h, u), LoadVector(h, v)))

elmult_call(h, u, v) == ReturnNewList(h, elmult(LoadVector(h, u), LoadVector(h, v)))

normalize_call(h, v) == ReturnNewList(h, normalize(LoadVector(h, v)))

cross_call(h, u, v) == ReturnNewList(h, cross(LoadVector(h, u), LoadVector(h, v)))

\* mult scaling the list at u in place and returning it
mult_call_in_place(h, u, c) ==
    LET out == mult(LoadVector(h, u), c)
    IN  [heap |-> [h EXCEPT ![u] = out.val], out |-> out, ref |-> u]

mult_call(h, u, c) == ReturnNewList(h, mult(LoadVector(h, u), c))

div_call(h, u, c) == ReturnNewList(h, div(LoadVector(h, u), FromInt(c)))

quaternion_to_rotation_matrix_call(h, q) ==
    ReturnNewMatrix(h, quaternion_to_rotation_matrix(LoadVector(h, q)))

matrix_constant_mult_call(h, m, c) ==
    ReturnNewMatrix(h, matrix_constant_mult(LoadMatrix(h, m), c))

matrix_vector_mult_call(h, m, v) ==
    ReturnNewList(h, matrix_vector_mult(LoadMatrix(h, m), LoadVector(h, v)))

vector_matrix_mult_call(h, v, m) ==
    ReturnNewList(h, vector_matrix_mult(LoadVector(h, v), LoadMatrix(h, m)))

matrix_mult_call(h, a, b) ==
    ReturnNewMatrix(h, matrix_mult(LoadMatrix(h, a), LoadMatrix(h, b)))

transpose_call(h, a) == ReturnNewMatrix(h, transpose(LoadMatrix(h, a)))

rotation_matrix_to_euler_call(h, m) ==
    ReturnNewList(h, rotation_matrix_to_euler(LoadMatrix(h, m)))

\* a tuple shape unflattens the flat list at a, an int shape flattens the matrix at a
reshape_call(h, a, new_shape) ==
    IF new_shape.tuple
    THEN ReturnNewMatrix(h, reshape(LoadVector(h, a), new_shape))
    ELSE ReturnNewList(h, reshape(LoadMatrix(h, a), new_shape))

\* ------------------------------------------------------- the callers' inputs

Scalars == -MaxVal..MaxVal

Vectors == UNION {[1..n -> Scalars] : n \in 0..MaxLen}

\* cross indexes positions 0..2: vectors of two and of three components
CrossVectors == [1..2 -> Scalars] \cup [1..3 -> Scalars]

Quaternions == [1..4 -> Scalars]

\* matrix entries
Entries == 0..MaxEntry

\* rectangular matrices, rows of length zero and no rows at all included
Shapes == {sh \in (0..MaxDim) \X (0..MaxDim) : sh[1] * sh[2] <= MaxCells}

Matrices == UNION {[1..sh[1] -> [1..sh[2] -> Entries]] : sh \in Shapes}

\* flat lists, as reshape unflattens them
FlatLists == UNION {[1..n -> Entries] : n \in 0..MaxCells}

Det3(m) ==
      m[1][1] * (m[2][2] * m[3][3] - m[2][3] * m[3][2])
    - m[1][2] * (m[2][1] * m[3][3] - m[2][3] * m[3][1])
    + m[1][3] * (m[2][1] * m[3][2] - m[2][2] * m[3][1])

\* the 24 rotation matrices with int entries: one 1 or -1 in each row and
\* column, determinant 1
Rotations ==
    LET Perms == {p \in [1..3 -> 1..3] : \A i, j \in 1..3 : p[i] = p[j] => i = j}
        Signed(p, sg) == [i \in 1..3 |-> [j \in 1..3 |-> IF j = p[i] THEN sg[i] ELSE 0]]
    IN  {m \in {Signed(p, sg) : p \in Perms, sg \in [1..3 -> {-1, 1}]} : Det3(m) = 1}

\* ----------------------------------------------------------------- actions

Init ==
    /\ pc = "idle"
    /\ op = "none"
    /\ args = <<>>
    /\ heap0 = <<>>
    /\ argRefs = <<>>
    /\ heap = <<>>
    /\ result = Ok(<<>>)
    /\ ret = 0

\* the call of function name on the arguments a, stored as st, leaving r
Call(name, a, st, r) ==
    /\ pc' = "done"
    /\ op' = name
    /\ args' = a
    /\ heap0' = st.heap
    /\ argRefs' = st.refs
    /\ heap' = r.heap
    /\ result' = r.out
    /\ ret' = r.ref

Call_magnitude ==
    /\ pc = "idle"
    /\ \E v \in Vectors :
            LET st == PutVector(NoArgs, v)
            IN  Call("magnitude", <<v>>, st, magnitude_call(st.heap, st.refs[1]))

Call_add ==
    /\ pc = "idle"
    /\ \E u \in Vectors, v \in Vectors :
            LET st == PutVector(PutVector(NoArgs, u), v)
            IN  Call("add", <<u, v>>, st, add_call(st.heap, st.refs[1], st.refs[2]))

Call_sub ==
    /\ pc = "idle"
    /\ \E u \in Vectors, v \in Vectors :
            LET st == PutVector(PutVector(NoArgs, u), v)
            IN  Call("sub", <<u, v>>, st, sub_call(st.heap, st.refs[1], st.refs[2]))

Call_dot ==
    /\ pc = "idle"
    /\ \E u \in Vectors, v \in Vectors :
            LET st == PutVector(PutVector(NoArgs, u), v)
            IN  Call("dot", <<u, v>>, st, dot_call(st.heap, st.refs[1], st.refs[2]))

Call_eldiv ==
    /\ pc = "idle"
    /\ \E u \in Vectors, v \in Vectors :
            LET st == PutVector(PutVector(NoArgs, u), v)
            IN  Call("eldiv", <<u, v>>, st, eldiv_call(st.heap, st.refs[1], st.refs[2]))

Call_elmult ==
    /\ pc = "idle"
    /\ \E u \in Vectors, v \in Vectors :
            LET st == PutVector(PutVector(NoArgs, u), v)
            IN  Call("elmult", <<u, v>>, st, elmult_call(st.heap, st.refs[1], st.refs[2]))

Call_normalize ==
    /\ pc = "idle"
    /\ \E v \in Vectors :
            LET st == PutVector(NoArgs, v)
            IN  Call("normalize", <<v>>, st, normalize_call(st.heap, st.refs[1]))

Call_cross ==
    /\ pc = "idle"
    /\ \E u \in CrossVectors, v \in CrossVectors :
            LET st == PutVector(PutVector(NoArgs, u), v)
            IN  Call("cross", <<u, v>>, st, cross_call(st.heap, st.refs[1], st.refs[2]))

Call_mult ==
    /\ pc = "idle"
    /\ \E u \in Vectors, c \in Scalars :
            LET st == PutVector(NoArgs, u)
            IN  Call("mult", <<u, c>>, st, mult_call(st.heap, st.refs[1], c))

Call_div ==
    /\ pc = "idle"
    /\ \E u \in Vectors, c \in Scalars :
            LET st == PutVector(NoArgs, u)
            IN  Call("div", <<u, c>>, st, div_call(st.heap, st.refs[1], c))

Call_quaternion_to_rotation_matrix ==
    /\ pc = "idle"
    /\ \E q \in Quaternions :
            LET st == PutVector(NoArgs, q)
            IN  Call("quaternion_to_rotation_matrix", <<q>>, st,
                     quaternion_to_rotation_matrix_call(st.heap, st.refs[1]))

Call_matrix_constant_mult ==
    /\ pc = "idle"
    /\ \E m \in Matrices, c \in Scalars :
            LET st == PutMatrix(NoArgs, m)
            IN  Call("matrix_constant_mult", <<m, c>>, st,
                     matrix_constant_mult_call(st.heap, st.refs[1], c))

Call_matrix_vector_mult ==
    /\ pc = "idle"
    /\ \E m \in Matrices, v \in Vectors :
            LET st == PutVector(PutMatrix(NoArgs, m), v)
            IN  Call("matrix_vector_mult", <<m, v>>, st,
                     matrix_vector_mult_call(st.heap, st.refs[1], st.refs[2]))

Call_vector_matrix_mult ==
    /\ pc = "idle"
    /\ \E v \in Vectors, m \in Matrices :
            LET st == PutMatrix(PutVector(NoArgs, v), m)
            IN  Call("vector_matrix_mult", <<v, m>>, st,
                     vector_matrix_mult_call(st.heap, st.refs[1], st.refs[2]))

Call_matrix_mult ==
    /\ pc = "idle"
    /\ \E a \in Matrices, b \in Matrices :
            LET st == PutMatrix(PutMatrix(NoArgs, a), b)
            IN  Call("matrix_mult", <<a, b>>, st,
                     matrix_mult_call(st.heap, st.refs[1], st.refs[2]))

Call_transpose ==
    /\ pc = "idle"
    /\ \E a \in Matrices :
            LET st == PutMatrix(NoArgs, a)
            IN  Call("transpose", <<a>>, st, transpose_call(st.heap, st.refs[1]))

Call_rotation_matrix_to_euler ==
    /\ pc = "idle"
    /\ \E m \in Rotations :
            LET st == PutMatrix(NoArgs, m)
            IN  Call("rotation_matrix_to_euler", <<m>>, st,
                     rotation_matrix_to_euler_call(st.heap, st.refs[1]))

\* reshape(a, (rows, cols)) on a flat list
Call_reshape_tuple ==
    /\ pc = "idle"
    /\ \E a \in FlatLists, rows \in 0..MaxDim, cols \in 0..MaxDim :
            LET st == PutVector(NoArgs, a)
                shape == TupleShape(rows, cols)
            IN  Call("reshape", <<a, shape>>, st, reshape_call(st.heap, st.refs[1], shape))

\* reshape(a, n) on a matrix
Call_reshape_int ==
    /\ pc = "idle"
    /\ \E a \in Matrices, n \in -1..(MaxCells + 1) :
            LET st == PutMatrix(NoArgs, a)
                shape == IntShape(n)
            IN  Call("reshape", <<a, shape>>, st, reshape_call(st.heap, st.refs[1], shape))

\* the caller drops the lists of the finished call
Return ==
    /\ pc = "done"
    /\ pc' = "idle"
    /\ op' = "none"
    /\ args' = <<>>
    /\ heap0' = <<>>
    /\ argRefs' = <<>>
    /\ heap' = <<>>
    /\ result' = Ok(<<>>)
    /\ ret' = 0

Next ==
    \/ Call_magnitude
    \/ Call_add
    \/ Call_sub
    \/ Call_dot
    \/ Call_eldiv
    \/ Call_elmult
    \/ Call_normalize
    \/ Call_cross
    \/ Call_mult
    \/ Call_div
    \/ Call_quaternion_to_rotation_matrix
    \/ Call_matrix_constant_mult
    \/ Call_matrix_vector_mult
    \/ Call_vector_matrix_mult
    \/ Call_matrix_mult
    \/ Call_transpose
    \/ Call_rotation_matrix_to_euler
    \/ Call_reshape_tuple
    \/ Call_reshape_int
    \/ Return

Spec == Init /\ [][Next]_vars

\* ------------------------------------------------------------------ claims

Done(name) == pc = "done" /\ op = name

\* s[1] + ... + s[n]
RECURSIVE Sigma(_, _)
Sigma(s, n) == IF n = 0 THEN 0 ELSE Sigma(s, n - 1) + s[n]

\* the columns of a rectangular matrix (0 for no rows)
Columns(m) == IF Len(m) = 0 THEN 0 ELSE Len(m[1])

Identity(n) == [i \in 1..n |-> [j \in 1..n |-> IF i = j THEN 1 ELSE 0]]

\* C1: vector_matrix_mult(v, m) raises ValueError exactly when len(v) differs
\* from the number of rows of m; with equal lengths and at least one row it
\* returns columns(m) entries, entry c the sum over the rows r of v[r]*m[r][c].
C1_VectorMatrixMult ==
    Done("vector_matrix_mult") =>
        LET v == args[1]
            m == args[2]
        IN  /\ (result.kind = "ValueError") <=> (Len(v) # Len(m))
            /\ (Len(v) = Len(m) /\ Len(m) >= 1) =>
                   /\ result.kind = "ok"
                   /\ Len(result.val) = Columns(m)
                   /\ \A c \in 1..Columns(m) :
                          result.val[c] = Sigma([r \in 1..Len(m) |-> v[r] * m[r][c]], Len(m))

\* C1 witness: a vector of two components against a matrix of one row
C1_Witness ==
    /\ Done("vector_matrix_mult")
    /\ Len(args[1]) = 2
    /\ Len(args[2]) = 1
    /\ result.kind = "ValueError"

\* C3 as stated: transpose(transpose(A)) = A for every rectangular A, rows of
\* length zero included.
C3_Original ==
    Done("transpose") =>
        /\ result.kind = "ok"
        /\ transpose(result.val) = Ok(args[1])

\* C3 amended: transpose(transpose(A)) = A for every rectangular A that has
\* no rows or whose rows have at least one element.
C3_TransposeInvolution ==
    (Done("transpose") /\ (Len(args[1]) = 0 \/ Columns(args[1]) >= 1)) =>
        /\ result.kind = "ok"
        /\ transpose(result.val) = Ok(args[1])

\* C3 witness: a matrix of one row and two columns, transposed to two rows
C3_Witness ==
    /\ Done("transpose")
    /\ Len(args[1]) = 1
    /\ Columns(args[1]) = 2
    /\ args[1][1][1] # args[1][1][2]
    /\ Len(result.val) = 2

\* C4: reshape(a, n) with an int n returns the first n elements of the
\* row-by-row flattening F of a when 0 <= n < len(F), and all of F otherwise.
C4_ReshapeInt ==
    (Done("reshape") /\ ~args[2].tuple) =>
        LET a == args[1]
            n == args[2].dims[1]
            cols == Columns(a)
            total == Len(a) * cols
            kept == IF 0 <= n /\ n < total THEN n ELSE total
        IN  /\ result.kind = "ok"
            /\ Len(result.val) = kept
            /\ \A k \in 1..kept :
                   result.val[k] = a[((k - 1) \div cols) + 1][((k - 1) % cols) + 1]

\* C4 witness: a 2 x 2 matrix cut to its first three elements
C4_Witness ==
    /\ Done("reshape")
    /\ ~args[2].tuple
    /\ args[2].dims[1] = 3
    /\ Len(args[1]) = 2
    /\ Columns(args[1]) = 2
    /\ result.val = <<0, 1, 1>>

\* C5: reshape(a, (rows, cols)) on a flat list of exactly rows*cols elements
\* (rows, cols >= 0) returns rows rows of cols elements with entry [i][j] equal
\* to a[i*cols + j], and reshape(result, rows*cols) gives back a.
C5_ReshapeTuple ==
    (Done("reshape") /\ args[2].tuple
        /\ Len(args[1]) = args[2].dims[1] * args[2].dims[2]) =>
        LET a == args[1]
            rows == args[2].dims[1]
            cols == args[2].dims[2]
        IN  /\ result.kind = "ok"
            /\ Len(result.val) = rows
            /\ \A i \in 1..rows :
                   /\ Len(result.val[i]) = cols
                   /\ \A j \in 1..cols : result.val[i][j] = a[(i - 1) * cols + j]
            /\ reshape(result.val, IntShape(rows * cols)) = Ok(a)

\* C5 witness: four elements unflattened into 2 x 2
C5_Witness ==
    /\ Done("reshape")
    /\ args[2].tuple
    /\ args[2].dims = <<2, 2>>
    /\ args[1] = <<0, 1, 1, 0>>
    /\ result.kind = "ok"

\* C7: for 3-vectors u, v: cross(u, v) = mult(cross(v, u), -1) and
\* dot(u, cross(u, v)) = 0.
C7_CrossAnticommutative ==
    (Done("cross") /\ Len(args[1]) = 3 /\ Len(args[2]) = 3) =>
        LET u == args[1]
            v == args[2]
        IN  /\ result.kind = "ok"
            /\ Ok(result.val) = mult(cross(v, u).val, -1)
            /\ dot(u, result.val) = Ok(0)

\* C7 witness: two 3-vectors with a cross product that is not zero
C7_Witness ==
    /\ Done("cross")
    /\ Len(args[1]) = 3
    /\ Len(args[2]) = 3
    /\ result.kind = "ok"
    /\ result.val[3] = 1
    /\ result.val[1] = -1

\* C10: for a rectangular m with at least one row and one column,
\* matrix_vector_mult(m, v) = vector_matrix_mult(v, transpose(m)) when
\* len(v) = columns(m); otherwise the latter raises ValueError and the
\* former does not, ignoring the elements of a longer v past the row length.
C10_PostPreMultiply ==
    (Done("matrix_vector_mult") /\ Len(args[1]) >= 1 /\ Columns(args[1]) >= 1) =>
        LET m == args[1]
            v == args[2]
            cols == Columns(m)
            pre == vector_matrix_mult(v, transpose(m).val)
        IN  /\ (Len(v) = cols) => (result.kind = "ok" /\ result = pre)
            /\ (Len(v) # cols) =>
                   (pre.kind = "ValueError" /\ result.kind # "ValueError")
            /\ (Len(v) > cols) =>
                   /\ result.kind = "ok"
                   /\ \A i \in 1..Len(m) :
                          result.val[i] = Sigma([j \in 1..cols |-> m[i][j] * v[j]], cols)

\* C10 witness: a 2 x 2 matrix times a vector of two components
C10_Witness ==
    /\ Done("matrix_vector_mult")
    /\ Len(args[1]) = 2
    /\ Columns(args[1]) = 2
    /\ Len(args[2]) = 2
    /\ result.kind = "ok"
    /\ result.val[1] # result.val[2]

\* the calls in which a division by zero is evaluated
DividesByZero ==
    \/ Done("normalize") /\ Len(args[1]) >= 1 /\ \A i \in 1..Len(args[1]) : args[1][i] = 0
    \/ Done("div") /\ Len(args[1]) >= 1 /\ args[2] = 0
    \/ Done("eldiv") /\ Len(args[1]) <= Len(args[2])
           /\ \E i \in 1..Len(args[1]) : args[2][i] = 0
    \/ Done("quaternion_to_rotation_matrix") /\ args[1] = <<0, 0, 0, 0>>

\* an IEEE infinity or NaN: a quotient with divisor zero
Anomalous(x) == x.den = 0

\* the components of the returned list (of the rows of a returned matrix)
Components ==
    IF op = "quaternion_to_rotation_matrix"
    THEN {result.val[i][j] : i \in 1..3, j \in 1..3}
    ELSE {result.val[i] : i \in 1..Len(result.val)}

\* the row-count mismatch vector_matrix_mult checks, also on behalf of matrix_mult
RowMismatch ==
    \/ Done("vector_matrix_mult") /\ Len(args[1]) # Len(args[2])
    \/ Done("matrix_mult") /\ \E i \in 1..Len(args[1]) : Len(args[1][i]) # Len(args[2])

Compatible(a, b) == \A i \in 1..Len(a) : Len(a[i]) = Len(b)

\* matrix_mult returned the p x s product, and A itself for b the identity
IsProduct ==
    LET a == args[1]
        b == args[2]
    IN  /\ result.kind = "ok"
        /\ Len(result.val) = Len(a)
        /\ \A i \in 1..Len(a) :
               /\ Len(result.val[i]) = Columns(b)
               /\ \A j \in 1..Columns(b) :
                      result.val[i][j] =
                          Sigma([k \in 1..Len(b) |-> a[i][k] * b[k][j]], Len(b))
        /\ (b = Identity(Len(a))) => (result.val = a)

\* C6 as stated: for every a (p x q) and b (q x s), matrix_mult(a, b) is the
\* p x s matrix of the sums over k of a[i][k]*b[k][j], and A for b the identity.
C6_Original ==
    (Done("matrix_mult") /\ Compatible(args[1], args[2])) => IsProduct

\* C6 amended: the same for every a (p x q) and b (q x s) with q >= 1 or
\* p = 0; with p >= 1 and q = 0 (rows of length zero against a matrix of no
\* rows) the call ends in IndexError.
C6_MatrixMult ==
    (Done("matrix_mult") /\ Compatible(args[1], args[2])) =>
        IF Len(args[1]) = 0 \/ Len(args[2]) >= 1
        THEN IsProduct
        ELSE result.kind = "IndexError"

\* C6 witness: a product of two 2 x 2 matrices with an entry summed from two
\* products
C6_Witness ==
    /\ Done("matrix_mult")
    /\ Len(args[1]) = 2
    /\ Len(args[2]) = 2
    /\ Columns(args[2]) = 2
    /\ result.kind = "ok"
    /\ result.val[1][2] = 2
    /\ result.val[2][1] = 0

\* the operations C8 names
ListOps ==
    {"add", "sub", "mult", "div", "elmult", "eldiv", "normalize", "cross",
     "matrix_constant_mult", "matrix_vector_mult", "vector_matrix_mult",
     "matrix_mult", "transpose", "reshape"}

\* the calls that return a list of rows
ReturnsMatrix ==
    \/ op \in {"matrix_constant_mult", "matrix_mult", "transpose"}
    \/ op = "reshape" /\ args[2].tuple

\* C8: after a call of a list operation every list object the caller held
\* holds the values it held before the call, and the returned list and each
\* of its rows are objects that did not exist before the call.
C8_NoMutationNoAliasing ==
    (pc = "done" /\ op \in ListOps) =>
        /\ Len(heap) >= Len(heap0)
        /\ \A r \in 1..Len(heap0) : heap[r] = heap0[r]
        /\ (result.kind = "ok") =>
               /\ ret > Len(heap0)
               /\ ReturnsMatrix =>
                      /\ \A i \in 1..Len(heap[ret]) : heap[ret][i] > Len(heap0)
                      /\ LoadMatrix(heap, ret) = result.val
               /\ ~ReturnsMatrix => LoadVector(heap, ret) = result.val

\* C8 witness: a matrix of two rows scaled by 1: the result has the values of
\* the argument and is made of other objects
C8_Witness ==
    /\ Done("matrix_constant_mult")
    /\ args[2] = 1
    /\ Len(args[1]) = 2
    /\ Columns(args[1]) = 2
    /\ result.val = args[1]
    /\ ret # argRefs[1]

\* C9: rotation_matrix_to_euler returns three angles for every rotation
\* matrix; with m[0][0] = 0 and m[0][1] = 0 (branch 3) azimuth is 0 and
\* elevation +/-pi/2; with m[0][0] = 0 and m[1][0] = 0 (gimbal lock) it
\* returns azimuth 0 and elevation +/-pi/2 without raising.
C9_EulerBranches ==
    Done("rotation_matrix_to_euler") =>
        LET m == args[1]
        IN  /\ result.kind = "ok"
            /\ Len(result.val) = 3
            /\ (m[1][1] = 0 /\ m[1][2] = 0) =>
                   (result.val[1] = 0 /\ result.val[2] \in {2, -2})
            /\ (m[1][1] = 0 /\ m[2][1] = 0) =>
                   (result.val[1] = 0 /\ result.val[2] \in {2, -2})

====
